---------------------------- MODULE Spec2Model ----------------------------
(***************************************************************************)
(* A model of the CUDA rasterization pipeline of rasterize.cu              *)
(* (src/unnamed/part_000) and rasterizeTools.h.                            *)
(*                                                                         *)
(* Numbers.  Screen coordinates x, y are integers (exactly representable   *)
(* as float).  Every other float of the code is a binary32 value           *)
(*     <<s, m, e>>  =  s * m * 2^e,  s \in {-1,0,1},  2^23 <= m < 2^24     *)
(* and the float operations below round to nearest, ties to even, as the   *)
(* device's IEEE division and addition do.  +infinity is FInf.             *)
(***************************************************************************)
EXTENDS Integers, Sequences, FiniteSets, TLC

\* ------------------------------------------------------------- bounds

\* Probe triangles have their vertices on the grid 0 .. GridMax.
GridMax == 3

\* ------------------------------------------------------ binary32 values

RECURSIVE TwoPow(_)
TwoPow(n) == IF n <= 0 THEN 1 ELSE 2 * TwoPow(n - 1)

\* Width of a binary32 significand (the type float of the source).
MantBits == 24
MantLo == TwoPow(MantBits - 1)
MantHi == TwoPow(MantBits)

FZero == <<0, 0, 0>>
FOne == <<1, MantLo, 1 - MantBits>>
\* INFINITY, the value initDepth stores.
FInf == <<1, 0, 1000>>

Sgn(n) == IF n > 0 THEN 1 ELSE IF n < 0 THEN -1 ELSE 0
Abs(n) == IF n < 0 THEN -n ELSE n
Min2(a, b) == IF a <= b THEN a ELSE b
Max2(a, b) == IF a >= b THEN a ELSE b

\* Round (q + r/d) * 2^e, with MantLo <= q < MantHi and 0 <= r < d, to the
\* nearest binary32 magnitude <<m, e>>, ties to even.
RoundNearestEven(q, r, d, e) ==
    LET up == (2 * r > d) \/ (2 * r = d /\ q % 2 = 1)
        q2 == IF up THEN q + 1 ELSE q
    IN  IF q2 = MantHi THEN <<MantLo, e + 1>> ELSE <<q2, e>>

\* (q + r/d) * 2^e with q < MantHi: shift left until the significand is full.
RECURSIVE ScaleUp(_, _, _, _)
ScaleUp(q, r, d, e) ==
    IF q >= MantLo THEN RoundNearestEven(q, r, d, e)
    ELSE IF 2 * r >= d THEN ScaleUp(2 * q + 1, 2 * r - d, d, e - 1)
         ELSE ScaleUp(2 * q, 2 * r, d, e - 1)

\* n * 2^e, n >= MantHi: shift right by k bits until the significand fits.
RECURSIVE ScaleDown(_, _, _)
ScaleDown(n, k, e) ==
    IF n \div TwoPow(k) < MantHi
    THEN RoundNearestEven(n \div TwoPow(k), n % TwoPow(k), TwoPow(k), e + k)
    ELSE ScaleDown(n, k + 1, e)

\* The binary32 magnitude nearest to (n / d) * 2^e, for integers n > 0, d > 0.
RoundRatio(n, d, e) ==
    IF n \div d >= MantHi THEN ScaleDown(n \div d, 1, e)
    ELSE ScaleUp(n \div d, n % d, d, e)

\* The float nearest to the rational n / d (d > 0): a float literal or an
\* exactly representable small value.
FromRatio(n, d) ==
    IF n = 0 THEN FZero
    ELSE LET r == RoundRatio(Abs(n), d, 0) IN <<Sgn(n), r[1], r[2]>>

FromInt(n) == FromRatio(n, 1)

\* a / b in float (b finite and nonzero).
FDiv(a, b) ==
    IF a[1] = 0 THEN FZero
    ELSE LET r == RoundRatio(a[2], b[2], a[3] - b[3])
         IN  <<a[1] * b[1], r[1], r[2]>>

\* a + b in float for a, b >= 0.
FAdd(a, b) ==
    IF a[1] = 0 THEN b
    ELSE IF b[1] = 0 THEN a
    ELSE LET hi == IF a[3] >= b[3] THEN a ELSE b
             lo == IF a[3] >= b[3] THEN b ELSE a
             diff == hi[3] - lo[3]
         IN  IF diff > MantBits + 1 THEN hi
             ELSE LET P == TwoPow(diff)
                      sum == hi[2] + (lo[2] \div P)
                      rem == lo[2] % P
                      r == IF sum < MantHi
                           THEN RoundNearestEven(sum, rem, P, hi[3])
                           ELSE RoundNearestEven(sum \div 2, (sum % 2) * P + rem,
                                                 2 * P, hi[3] + 1)
                  IN  <<1, r[1], r[2]>>

\* a < b for floats (either may be FInf; no NaN arises from the inputs used).
FLess(a, b) ==
    IF a = b THEN FALSE
    ELSE IF a = FInf THEN FALSE
    ELSE IF b = FInf THEN TRUE
    ELSE IF a[1] # b[1] THEN a[1] < b[1]
    ELSE IF a[1] = 0 THEN FALSE
    ELSE LET lt == IF a[3] # b[3] THEN a[3] < b[3] ELSE a[2] < b[2]
         IN  IF a[1] = 1 THEN lt ELSE ~lt

FLeq(a, b) == a = b \/ FLess(a, b)

\* The value an integer number of units 2^(-E) has as a float (a double
\* result converted to float).
FromScaled(n, E) ==
    IF n = 0 THEN FZero
    ELSE LET r == RoundRatio(Abs(n), 1, -E) IN <<Sgn(n), r[1], r[2]>>

\* The float f as an integer number of units 2^(-E) (E large enough for it
\* to be exact).
ToScaled(f, E) == f[1] * f[2] * TwoPow(f[3] + E)

\* ---------------------------------------------------- rasterizeTools.h

\* A triangle is <<v0, v1, v2>>, a vertex <<x, y, z>>: x, y integer screen
\* coordinates, z a float.

Clamp(v, lo, hi) == Min2(Max2(v, lo), hi)

\* The bounding box of tri, clamped to [0, w] x [0, h].
getAABBForTriangle(tri, w, h) ==
    [minx |-> Clamp(Min2(Min2(tri[1][1], tri[2][1]), tri[3][1]), 0, w),
     miny |-> Clamp(Min2(Min2(tri[1][2], tri[2][2]), tri[3][2]), 0, h),
     maxx |-> Clamp(Max2(Max2(tri[1][1], tri[2][1]), tri[3][1]), 0, w),
     maxy |-> Clamp(Max2(Max2(tri[1][2], tri[2][2]), tri[3][2]), 0, h)]

\* Twice the signed area: the integer the code halves.
Cross(a, b, c) ==
    (c[1] - a[1]) * (b[2] - a[2]) - (b[1] - a[1]) * (c[2] - a[2])

\* 0.5 * cross, exact in float for the integer coordinates used.
calculateSignedArea(tri) == FromRatio(Cross(tri[1], tri[2], tri[3]), 2)

calculateBarycentricCoordinateValue(a, b, c, tri) ==
    FDiv(calculateSignedArea(<<a, b, c>>), calculateSignedArea(tri))

\* Number of fraction bits needed to write the float f exactly.
FracBits(f) == IF f[1] = 0 THEN 0 ELSE Max2(0, -f[3])

\* 1.0 - beta - gamma evaluated in double (exact for these operands, written
\* in units of 2^(-E)) and then converted to float.
AlphaAt(beta, gamma, E) ==
    FromScaled(TwoPow(E) - ToScaled(beta, E) - ToScaled(gamma, E), E)

BarycentricFrom(beta, gamma) ==
    <<AlphaAt(beta, gamma, Max2(FracBits(beta), FracBits(gamma))), beta, gamma>>

\* <<alpha, beta, gamma>>: beta and gamma are float quotients of areas,
\* alpha is 1.0 - beta - gamma.
calculateBarycentricCoordinate(tri, point) ==
    BarycentricFrom(
        calculateBarycentricCoordinateValue(tri[1], point, tri[3], tri),
        calculateBarycentricCoordinateValue(tri[1], tri[2], point, tri))

isBarycentricCoordInBounds(bc) ==
    /\ FLeq(FZero, bc[1]) /\ FLeq(bc[1], FOne)
    /\ FLeq(FZero, bc[2]) /\ FLeq(bc[2], FOne)
    /\ FLeq(FZero, bc[3]) /\ FLeq(bc[3], FOne)

\* 1.0f / (a/z0 + b/z1 + c/z2), every operation in float; used for
\* coordinates that are in bounds (all terms non-negative) and depths > 0.
getPerspectiveCorrectZAtCoordinate(bc, tri) ==
    LET inverseZ == FAdd(FAdd(FDiv(bc[1], tri[1][3]), FDiv(bc[2], tri[2][3])),
                         FDiv(bc[3], tri[3][3]))
    IN  FDiv(FOne, inverseZ)

\* The pixels the double loop of the rasterizer kernel visits, in its order:
\* x from bbox.min.x to bbox.max.x (outer), y from bbox.min.y to bbox.max.y.
Candidates(tri, w, h) ==
    LET bbox == getAABBForTriangle(tri, w, h)
        ny   == bbox.maxy - bbox.miny + 1
        nx   == bbox.maxx - bbox.minx + 1
    IN  [k \in 1 .. nx * ny |->
            <<bbox.minx + ((k - 1) \div ny), bbox.miny + ((k - 1) % ny)>>]

\* The flat index the kernel computes for pixel p.
FlatIndex(p, w) == p[1] + p[2] * w

\* ------------------------------------------------------------ the data

\* A VertexOut.  pos is <<x, y, z>> in viewport space, eyePos and eyeNor are
\* integer vectors, color a colour record, dev_diffuseTex a texture handle
\* ("NULL", the name of a texture, or "GARBAGE" for bits nobody wrote).
\* written is a ghost flag: the vertex stage has written this slot.
White == [kind |-> "rgba", v |-> <<1, 1, 1, 1>>]
Black0 == [kind |-> "rgba", v |-> <<0, 0, 0, 0>>]
WildColor == [kind |-> "wild", v |-> <<0, 0, 0, 0>>]
TexelColor == [kind |-> "texel", v |-> <<0, 0, 0, 1>>]
Zero3 == <<0, 0, 0>>

\* A slot of a freshly cudaMalloc'ed VertexOut buffer: nothing is written,
\* its texture pointer holds whatever the allocation held (heapTex).
UnwrittenVertex(heapTex) ==
    [pos |-> <<0, 0, FZero>>, eyePos |-> Zero3, eyeNor |-> Zero3,
     color |-> Black0, dev_diffuseTex |-> heapTex, materialId |-> 0,
     written |-> FALSE]

\* A Primitive: three VertexOut.
UnwrittenPrimitive(heapTex) ==
    [v |-> <<UnwrittenVertex(heapTex), UnwrittenVertex(heapTex),
             UnwrittenVertex(heapTex)>>]

\* What a read past the end of the primitive array returns.
JunkPrimitive == UnwrittenPrimitive("GARBAGE")

\* A Fragment after cudaMemset(dev_fragmentBuffer, 0, ...): every byte zero.
\* eyeNor is kept as the three vertex normals it was interpolated from.
ClearedFragment ==
    [color |-> Black0, eyeNor |-> <<Zero3, Zero3, Zero3>>, materialId |-> 0]

\* The float whose four bytes are all 0x01: cudaMemset(dev_depthRevealage, 1, ...)
\* sets bytes, so every revealage becomes 0x01010101 = 8454401 * 2^-148.
ByteOnesFloat == <<1, 8454401, -148>>

\* Depths used by the scenes.
Z03 == FromRatio(3, 10)
Z05 == FromRatio(1, 2)
Z07 == FromRatio(7, 10)

\* ----------------------------------------------------------- the scenes

\* A triangle of a scene: screen positions p (three <<x, y>>), one depth z,
\* one eye-space position and one normal for its three vertices.  The
\* positions are the viewport-space positions the frame's MVP gives.
Tri(p, z, eye, nor) == [p |-> p, z |-> z, eye |-> eye, nor |-> nor]

\* A mesh-part (PrimitiveDevBufPointers) in TRIANGLES mode: three vertices
\* and three indices per triangle, as rasterizeSetBuffers builds it.  The
\* per-vertex arrays hold what the frame's matrices make of the vertex.
MkPart(tris, mat, tex) ==
    [primitiveMode |-> "TRIANGLES",
     primitiveType |-> 3,
     numPrimitives |-> (3 * Len(tris)) \div 3,
     numIndices |-> 3 * Len(tris),
     numVertices |-> 3 * Len(tris),
     dev_indices |-> [i \in 1 .. 3 * Len(tris) |-> i - 1],
     dev_position |-> [i \in 1 .. 3 * Len(tris) |->
         LET t == tris[((i - 1) \div 3) + 1]
             q == t.p[((i - 1) % 3) + 1]
         IN  <<q[1], q[2], t.z>>],
     dev_eyePos |-> [i \in 1 .. 3 * Len(tris) |-> tris[((i - 1) \div 3) + 1].eye],
     dev_normal |-> [i \in 1 .. 3 * Len(tris) |-> tris[((i - 1) \div 3) + 1].nor],
     dev_diffuseTex |-> tex,
     materialId |-> mat]

\* The material id rasterizeSetBuffers gives the i-th mesh-part: one counter,
\* started at -1 and incremented for every mesh-part that has a material.
LoaderMaterialId(inputs, i) ==
    Cardinality({j \in 1 .. i : inputs[j].hasMaterial}) - 1

RECURSIVE SumPrims(_, _)
SumPrims(parts, n) ==
    IF n = 0 THEN 0 ELSE parts[n].numPrimitives + SumPrims(parts, n - 1)

\* rasterizeSetBuffers: the mesh-parts, totalNumPrimitives and
\* totalNumMaterials of a scene given as a sequence of mesh-part inputs
\* [tris, hasMaterial, tex].  supplied is a ghost: which mesh-parts the scene
\* supplied with a material.
rasterizeSetBuffers(w, h, inputs) ==
    LET parts == [i \in 1 .. Len(inputs) |->
                    MkPart(inputs[i].tris, LoaderMaterialId(inputs, i),
                           inputs[i].tex)]
    IN  [w |-> w, h |-> h, parts |-> parts,
         supplied |-> [i \in 1 .. Len(inputs) |-> inputs[i].hasMaterial],
         totalNumPrimitives |-> SumPrims(parts, Len(parts)),
         totalNumMaterials |->
             Cardinality({j \in 1 .. Len(inputs) : inputs[j].hasMaterial})]

In(tris, hasMaterial) == [tris |-> tris, hasMaterial |-> hasMaterial, tex |-> "NULL"]

\* Screen triangles.  PixA accepts exactly pixel (0,0) of a 1 x 1 image;
\* PixAFlip is PixA with the other winding.  RightEdge accepts exactly the
\* candidate (1,0) of an image of width 1; BelowEdge exactly the candidate
\* (0,2) of an image of height 2.
PixA == << <<-1, -1>>, <<-1, 1>>, <<1, -1>> >>
PixAFlip == << <<-1, -1>>, <<1, -1>>, <<-1, 1>> >>
RightEdge == << <<-1, -1>>, <<0, -1>>, <<1, 0>> >>
BelowEdge == << <<-1, -1>>, <<-1, 0>>, <<0, 2>> >>

Eye == <<0, 0, -1>>
Toward == <<0, 0, 1>>
Upward == <<0, 1, 0>>
Away == <<0, 0, -1>>

\* The scenes: the image size rasterizeInit got and what rasterizeSetBuffers
\* built from the mesh-parts supplied.
Scenes ==
    { \* two mesh-parts, one triangle each, the nearer one first
      rasterizeSetBuffers(1, 1,
          << In(<<Tri(PixAFlip, Z03, Eye, Toward)>>, FALSE),
             In(<<Tri(PixAFlip, Z07, Eye, Upward)>>, TRUE) >>),
      \* the same, the farther one first
      rasterizeSetBuffers(1, 1,
          << In(<<Tri(PixAFlip, Z07, Eye, Upward)>>, TRUE),
             In(<<Tri(PixAFlip, Z03, Eye, Toward)>>, FALSE) >>),
      \* one mesh-part with a back-facing and a front-facing triangle
      rasterizeSetBuffers(1, 1,
          << In(<<Tri(PixA, Z03, Eye, Away),
                  Tri(PixAFlip, Z05, Eye, Toward)>>, FALSE) >>),
      \* one triangle reaching the right border, one the bottom border
      rasterizeSetBuffers(1, 2,
          << In(<<Tri(RightEdge, Z05, Eye, Toward),
                  Tri(BelowEdge, Z05, Eye, Upward)>>, FALSE) >>) }

\* ------------------------------------------------------------ the state

VARIABLES
    scene,                 \* what rasterizeInit and rasterizeSetBuffers left
    config,                \* the build's toggles and what the allocator did
    dev_verticesOut,       \* per mesh-part, the VertexOut array
    dev_primitives,        \* slot -> Primitive
    dev_culledPrimitives,  \* slot -> Primitive
    culledNumPrimitives,   \* the local of rasterize
    dev_fragmentBuffer,    \* index -> Fragment
    dev_depth,             \* index -> float
    dev_depthAccum,        \* index -> colour
    dev_depthRevealage,    \* index -> float
    dev_framebuffer,       \* index -> what render wrote
    pbo,                   \* index -> what sendImageToPBO wrote
    started,               \* the tasks <<op, thread>> of this frame that began
    finished,              \* those that returned
    rt,                    \* rasterizer thread -> its locals
    oob,                   \* the accesses outside an array so far
    frame,                 \* the number of the frame being drawn
    prev,                  \* the buffers as the previous frame left them
    probe,                 \* a device function applied on its own
    mem,                   \* the device allocations and the host's pointers
    host,                  \* rasterize's launches and the runtime's last error
    oit                    \* one pixel of the transparency buffers and its tasks

vars == <<scene, config, dev_verticesOut, dev_primitives, dev_culledPrimitives,
          culledNumPrimitives, dev_fragmentBuffer, dev_depth, dev_depthAccum,
          dev_depthRevealage, dev_framebuffer, pbo, started, finished, rt, oob,
          frame, prev, probe, mem, host, oit>>

\* The host calls rasterize this many times.
MaxFrames == 2

NumPixels == scene.w * scene.h
Indices == 0 .. NumPixels - 1

\* The kernels, copies and clears rasterize issues to the default stream
\* after the per-mesh-part loop, in program order.
AfterGeometry(culling) ==
    IF culling
    THEN <<"copy", "cull", "clearFragment", "clearAccum", "clearRevealage",
           "initDepth", "rasterize", "render", "present">>
    ELSE <<"copy", "clearFragment", "clearAccum", "clearRevealage",
           "initDepth", "rasterize", "render", "present">>

NumOps == 2 * Len(scene.parts) + Len(AfterGeometry(config.BACKFACE_CULLING))

\* The k-th operation rasterize issues: for each mesh-part its vertex kernel
\* and then its primitive-assembly kernel, then the operations AfterGeometry.
Op(k) ==
    IF k <= 2 * Len(scene.parts)
    THEN [kind |-> IF k % 2 = 1 THEN "vertex" ELSE "assembly",
          part |-> (k + 1) \div 2]
    ELSE [kind |-> AfterGeometry(config.BACKFACE_CULLING)[k - 2 * Len(scene.parts)],
          part |-> 0]

OpOf(kd) == CHOOSE k \in 1 .. NumOps : Op(k).kind = kd

\* The threads of operation k that do work (those inside the kernel's bound
\* check); a copy or a clear is one task.
Tasks(k) ==
    LET op == Op(k)
    IN  CASE op.kind = "vertex" -> 0 .. scene.parts[op.part].numVertices - 1
          [] op.kind = "assembly" -> 0 .. scene.parts[op.part].numIndices - 1
          [] op.kind \in {"initDepth", "render", "present"} -> Indices
          [] op.kind = "rasterize" -> 0 .. culledNumPrimitives - 1
          [] OTHER -> {0}

OpComplete(k) == \A t \in Tasks(k) : <<k, t>> \in finished

\* Kernels launched with no ordering between them: any may start at once.
Unordered(k) == TRUE

\* Work issued to one stream runs in issue order: operation k starts when
\* every operation issued before it has completed.
StreamReady(k) == \A j \in 1 .. k - 1 : OpComplete(j)

CanStart(k, t) == t \in Tasks(k) /\ <<k, t>> \notin started /\ StreamReady(k)

\* curPrimitiveBeginId as rasterize passes it for mesh-part i.
CurPrimitiveBeginId(i) == SumPrims(scene.parts, i - 1)

Slots == 0 .. scene.totalNumPrimitives - 1

FrameDone == \A k \in 1 .. NumOps : OpComplete(k)

Buffers == <<dev_verticesOut, dev_primitives, dev_culledPrimitives,
             culledNumPrimitives, dev_fragmentBuffer, dev_depth, dev_depthAccum,
             dev_depthRevealage, dev_framebuffer, pbo>>

\* ----------------------------------------------------------- the start

\* The state after rasterizeInit and rasterizeSetBuffers: the fragment and
\* frame buffers are zeroed, every other buffer is allocated and unwritten.
\* For the depth buffer the unwritten content is taken to be 0.0.
InitScene(sc, cf) ==
    /\ scene = sc
    /\ config = cf
    /\ dev_verticesOut =
         [i \in 1 .. Len(sc.parts) |->
            [v \in 1 .. sc.parts[i].numVertices |-> UnwrittenVertex(cf.heapTex)]]
    /\ dev_primitives =
         [n \in 0 .. sc.totalNumPrimitives - 1 |-> UnwrittenPrimitive(cf.heapTex)]
    /\ dev_culledPrimitives =
         [n \in 0 .. sc.totalNumPrimitives - 1 |-> UnwrittenPrimitive(cf.heapTex)]
    /\ culledNumPrimitives = 0
    /\ dev_fragmentBuffer = [n \in 0 .. sc.w * sc.h - 1 |-> ClearedFragment]
    /\ dev_depth = [n \in 0 .. sc.w * sc.h - 1 |-> FZero]
    /\ dev_depthAccum = [n \in 0 .. sc.w * sc.h - 1 |-> WildColor]
    /\ dev_depthRevealage = [n \in 0 .. sc.w * sc.h - 1 |-> FZero]
    /\ dev_framebuffer = [n \in 0 .. sc.w * sc.h - 1 |->
                            [kind |-> "pass", color |-> Black0, mat |-> -1,
                             nor |-> <<Zero3, Zero3, Zero3>>]]
    /\ pbo = [n \in 0 .. sc.w * sc.h - 1 |->
                [bytes |-> <<0, 0, 0, 0>>,
                 of |-> [kind |-> "pass", color |-> Black0, mat |-> -1,
                         nor |-> <<Zero3, Zero3, Zero3>>]]]
    /\ started = {}
    /\ finished = {}
    /\ rt = [n \in {} |-> 0]
    /\ oob = {}
    /\ frame = 1
    /\ prev = [valid |-> FALSE, depth |-> << >>, frag |-> << >>,
               fb |-> << >>, pbo |-> << >>]

\* The distance (in primitives) from dev_primitives to dev_culledPrimitives:
\* the two allocations do not overlap; they are taken to be adjacent, in
\* either order.
AddrDeltas(total) == {total, -total}

Configs(sc) ==
    {[BACKFACE_CULLING |-> FALSE, heapTex |-> ht, addrDelta |-> sc.totalNumPrimitives]
        : ht \in {"NULL", "GARBAGE"}}
    \cup
    {[BACKFACE_CULLING |-> TRUE, heapTex |-> "NULL", addrDelta |-> d]
        : d \in AddrDeltas(sc.totalNumPrimitives)}

NoProbe == [on |-> FALSE]

\* The allocator is not followed while frames are drawn.
NoMem == [on |-> FALSE]

\* No launch fails while frames are drawn.
NoHost == [on |-> FALSE]

\* USE_K_BUFFER is not defined in the build whose frames are drawn.
NoOit == [on |-> FALSE]

Init ==
    /\ \E sc \in Scenes : \E cf \in Configs(sc) : InitScene(sc, cf)
    /\ probe = NoProbe
    /\ mem = NoMem
    /\ host = NoHost
    /\ oit = NoOit

\* ------------------------------------------------- the geometry stages

\* A single-step task: it begins and returns in one step.
RunTask(k, t) ==
    /\ started' = started \cup {<<k, t>>}
    /\ finished' = finished \cup {<<k, t>>}

Fixed == <<scene, config, frame, prev, probe, mem, host, oit>>

\* _vertexTransformAndAssembly, thread vid of the launch for a mesh-part.
vertexTransformAndAssembly(k, vid) ==
    /\ Op(k).kind = "vertex"
    /\ CanStart(k, vid)
    /\ LET i    == Op(k).part
           part == scene.parts[i]
           old  == dev_verticesOut[i][vid + 1]
       IN  dev_verticesOut' = [dev_verticesOut EXCEPT ![i][vid + 1] =
              [pos |-> part.dev_position[vid + 1],
               eyePos |-> part.dev_eyePos[vid + 1],
               eyeNor |-> part.dev_normal[vid + 1],
               color |-> White,
               dev_diffuseTex |-> IF part.dev_diffuseTex # "NULL"
                                  THEN part.dev_diffuseTex
                                  ELSE old.dev_diffuseTex,
               materialId |-> part.materialId,
               written |-> TRUE]]
    /\ RunTask(k, vid)
    /\ UNCHANGED <<dev_primitives, dev_culledPrimitives, culledNumPrimitives,
                   dev_fragmentBuffer, dev_depth, dev_depthAccum,
                   dev_depthRevealage, dev_framebuffer, pbo, rt, oob, Fixed>>

\* _primitiveAssembly, thread iid of the launch for a mesh-part.
primitiveAssembly(k, iid) ==
    /\ Op(k).kind = "assembly"
    /\ CanStart(k, iid)
    /\ LET i    == Op(k).part
           part == scene.parts[i]
           slot == (iid \div part.primitiveType) + CurPrimitiveBeginId(i)
           lane == (iid % part.primitiveType) + 1
           src  == dev_verticesOut[i][part.dev_indices[iid + 1] + 1]
       IN  IF part.primitiveMode # "TRIANGLES"
           THEN UNCHANGED <<dev_primitives, oob>>
           ELSE IF slot \in Slots
           THEN /\ dev_primitives' = [dev_primitives EXCEPT ![slot].v[lane] = src]
                /\ UNCHANGED oob
           ELSE /\ oob' = oob \cup {<<"dev_primitives", slot>>}
                /\ UNCHANGED dev_primitives
    /\ RunTask(k, iid)
    /\ UNCHANGED <<dev_verticesOut, dev_culledPrimitives, culledNumPrimitives,
                   dev_fragmentBuffer, dev_depth, dev_depthAccum,
                   dev_depthRevealage, dev_framebuffer, pbo, rt, Fixed>>

\* culledNumPrimitives = totalNumPrimitives and the device-to-device copy.
copyPrimitives(k) ==
    /\ Op(k).kind = "copy"
    /\ CanStart(k, 0)
    /\ culledNumPrimitives' = scene.totalNumPrimitives
    /\ dev_culledPrimitives' = dev_primitives
    /\ RunTask(k, 0)
    /\ UNCHANGED <<dev_verticesOut, dev_primitives, dev_fragmentBuffer, dev_depth,
                   dev_depthAccum, dev_depthRevealage, dev_framebuffer, pbo, rt,
                   oob, Fixed>>

\* Fraction bits kept when a depth is written as an integer.
ZBits == MantBits + 2
ZUnits(z) == ToScaled(z, ZBits)

\* The predicate of the visibility filter: TRUE for a primitive to remove.
\* Evaluated exactly; for the flat triangles of the scenes (equal depths, so
\* the z edges are 0) every float product and sum of the code is exact too.
shouldBackfaceCull(p) ==
    LET a == p.v[1].pos  b == p.v[2].pos  c == p.v[3].pos
        e1x == a[1] - b[1]  e1y == a[2] - b[2]
        e1z == ZUnits(a[3]) - ZUnits(b[3])
        e2x == b[1] - c[1]  e2y == b[2] - c[2]
        e2z == ZUnits(b[3]) - ZUnits(c[3])
        nx == e1y * e2z - e1z * e2y
        ny == e1z * e2x - e1x * e2z
        nz == (e1x * e2y - e1y * e2x) * TwoPow(ZBits)
        eye == p.v[1].eyePos
    IN  nx * (-eye[1]) + ny * (-eye[2]) + nz * (-eye[3]) < 0

\* The primitives of slots 0 .. n-1 of arr that the predicate keeps, in order.
RECURSIVE Survivors(_, _)
Survivors(arr, n) ==
    IF n = 0 THEN << >>
    ELSE IF shouldBackfaceCull(arr[n - 1]) THEN Survivors(arr, n - 1)
         ELSE Append(Survivors(arr, n - 1), arr[n - 1])

\* thrust::remove_if on dev_culledPrimitives: the survivors move to the
\* front, the slots behind them keep what they held.
RemoveIf(arr, n) ==
    LET kept == Survivors(arr, n)
    IN  [slot \in DOMAIN arr |->
            IF slot < Len(kept) THEN kept[slot + 1] ELSE arr[slot]]

\* dev_primitives_end - dev_primitives: the end of the survivors is a pointer
\* into dev_culledPrimitives, the base subtracted is dev_primitives, so the
\* difference is the survivor count plus the distance of the two arrays.
CulledCount(arr, n, addrDelta) ==
    LET d == (addrDelta + Len(Survivors(arr, n)))
    IN  IF d <= 0 THEN 1 ELSE d

\* The BACKFACE_CULLING block of rasterize.
backfaceCull(k) ==
    /\ Op(k).kind = "cull"
    /\ CanStart(k, 0)
    /\ dev_culledPrimitives' =
         RemoveIf(dev_culledPrimitives, scene.totalNumPrimitives)
    /\ culledNumPrimitives' =
         CulledCount(dev_culledPrimitives, scene.totalNumPrimitives,
                     config.addrDelta)
    /\ RunTask(k, 0)
    /\ UNCHANGED <<dev_verticesOut, dev_primitives, dev_fragmentBuffer, dev_depth,
                   dev_depthAccum, dev_depthRevealage, dev_framebuffer, pbo, rt,
                   oob, Fixed>>

\* ---------------------------------------------------- the frame's clears

clearFragmentBuffer(k) ==
    /\ Op(k).kind = "clearFragment"
    /\ CanStart(k, 0)
    /\ dev_fragmentBuffer' = [n \in Indices |-> ClearedFragment]
    /\ RunTask(k, 0)
    /\ UNCHANGED <<dev_verticesOut, dev_primitives, dev_culledPrimitives,
                   culledNumPrimitives, dev_depth, dev_depthAccum,
                   dev_depthRevealage, dev_framebuffer, pbo, rt, oob, Fixed>>

clearDepthAccum(k) ==
    /\ Op(k).kind = "clearAccum"
    /\ CanStart(k, 0)
    /\ dev_depthAccum' = [n \in Indices |-> Black0]
    /\ RunTask(k, 0)
    /\ UNCHANGED <<dev_verticesOut, dev_primitives, dev_culledPrimitives,
                   culledNumPrimitives, dev_fragmentBuffer, dev_depth,
                   dev_depthRevealage, dev_framebuffer, pbo, rt, oob, Fixed>>

clearDepthRevealage(k) ==
    /\ Op(k).kind = "clearRevealage"
    /\ CanStart(k, 0)
    /\ dev_depthRevealage' = [n \in Indices |-> ByteOnesFloat]
    /\ RunTask(k, 0)
    /\ UNCHANGED <<dev_verticesOut, dev_primitives, dev_culledPrimitives,
                   culledNumPrimitives, dev_fragmentBuffer, dev_depth,
                   dev_depthAccum, dev_framebuffer, pbo, rt, oob, Fixed>>

\* The pixel a thread of a per-pixel kernel computes for itself.
ThreadX(t) == t % scene.w
ThreadY(t) == t \div scene.w

initDepth(k, t) ==
    /\ Op(k).kind = "initDepth"
    /\ CanStart(k, t)
    /\ dev_depth' = [dev_depth EXCEPT
                       ![FlatIndex(<<ThreadX(t), ThreadY(t)>>, scene.w)] = FInf]
    /\ RunTask(k, t)
    /\ UNCHANGED <<dev_verticesOut, dev_primitives, dev_culledPrimitives,
                   culledNumPrimitives, dev_fragmentBuffer, dev_depthAccum,
                   dev_depthRevealage, dev_framebuffer, pbo, rt, oob, Fixed>>

\* ------------------------------------------------------- the rasterizer

\* The locals of a rasterizer thread.  k is the position in Candidates of the
\* pixel being (or last) handled; pc is the statement it executes next.
\* calls is a ghost: the <<index, value>> of its calls of fatomicMin so far.
RtInit(prim) ==
    [pc |-> "scan", prim |-> prim, k |-> 0, x |-> 0, y |-> 0, index |-> 0,
     depth |-> FZero, old |-> FZero, calls |-> << >>]

PrimTri(prim) == <<prim.v[1].pos, prim.v[2].pos, prim.v[3].pos>>

PrimWritten(prim) == \A n \in 1 .. 3 : prim.v[n].written

Least(S) == IF S = {} THEN 0 ELSE CHOOSE j \in S : \A j2 \in S : j <= j2

\* The first of the candidates C after position k that passes the
\* barycentric test (0: the loops end).
NextAcceptedIn(tri, C, k) ==
    Least({j \in k + 1 .. Len(C) :
             isBarycentricCoordInBounds(calculateBarycentricCoordinate(tri, C[j]))})

NextAccepted(tri, w, h, k) == NextAcceptedIn(tri, Candidates(tri, w, h), k)

\* The in-kernel test under BACKFACE_CULLING: dot(eyeNor, -eyePos) < 0.
KernelCulls(prim) ==
    LET n == prim.v[1].eyeNor  e == prim.v[1].eyePos
    IN  n[1] * (-e[1]) + n[2] * (-e[2]) + n[3] * (-e[3]) < 0

\* The colour a fragment of prim gets: a texel when the first vertex carries
\* a texture pointer (read through the pointer, whatever it is), else the
\* vertex colour.
FragmentColor(prim) ==
    IF prim.v[1].dev_diffuseTex = "NULL" THEN prim.v[1].color
    ELSE IF prim.v[1].dev_diffuseTex = "GARBAGE" THEN WildColor
    ELSE TexelColor

RasterOp == OpOf("rasterize")

\* _rasterize, thread pid: Primitive primitive = primitives[pid] and the
\* early returns.  A record nobody wrote (past the end of the array, or a
\* slot never assembled) makes the thread's scan arbitrary; it is recorded
\* and the thread is taken to return.
rasterizeBegin(pid) ==
    /\ Op(RasterOp).kind = "rasterize"
    /\ CanStart(RasterOp, pid)
    /\ LET prim == IF pid \in Slots THEN dev_culledPrimitives[pid]
                   ELSE JunkPrimitive
           returns == \/ ~PrimWritten(prim)
                      \/ (config.BACKFACE_CULLING /\ KernelCulls(prim))
       IN  /\ rt' = [n \in DOMAIN rt \cup {pid} |->
                       IF n = pid
                       THEN [RtInit(prim) EXCEPT !.pc = IF returns THEN "done"
                                                       ELSE "scan"]
                       ELSE rt[n]]
           /\ oob' = IF pid \notin Slots
                     THEN oob \cup {<<"dev_culledPrimitives", pid>>}
                     ELSE IF ~PrimWritten(prim)
                     THEN oob \cup {<<"unwritten primitive", pid>>}
                     ELSE oob
           /\ started' = started \cup {<<RasterOp, pid>>}
           /\ finished' = IF returns THEN finished \cup {<<RasterOp, pid>>}
                          ELSE finished
    /\ UNCHANGED <<Buffers, Fixed>>

\* What the loop body computes for pixel p, the j-th candidate: its index
\* and its interpolated depth (j = 0: the loops ended).
ScanAt(tri, p, j) ==
    IF j = 0
    THEN [j |-> 0, x |-> 0, y |-> 0, index |-> 0, depth |-> FZero]
    ELSE [j |-> j, x |-> p[1], y |-> p[2], index |-> FlatIndex(p, scene.w),
          depth |-> getPerspectiveCorrectZAtCoordinate(
                        calculateBarycentricCoordinate(tri, p), tri)]

ScanFrom(tri, C, j) == ScanAt(tri, IF j = 0 THEN <<0, 0>> ELSE C[j], j)

\* The loops of a thread from candidate k on, up to the next pixel the
\* barycentric test accepts.
ScanStep(prim, k) ==
    ScanFrom(PrimTri(prim), Candidates(PrimTri(prim), scene.w, scene.h),
             NextAccepted(PrimTri(prim), scene.w, scene.h, k))

\* The loops up to and including the depth test of the next accepted pixel:
\* the barycentric test of each candidate, the interpolated depth, the index
\* and the read  depth < depths[index].  An index outside the buffer reads
\* whatever lies there: the test may pass or fail, and the stores it leads
\* to land outside the buffers.
rasterizeScan(pid) ==
    /\ pid \in DOMAIN rt
    /\ rt[pid].pc = "scan"
    /\ \E s \in {ScanStep(rt[pid].prim, rt[pid].k)} :
         IF s.j = 0
         THEN /\ rt' = [rt EXCEPT ![pid].pc = "done"]
              /\ finished' = finished \cup {<<RasterOp, pid>>}
              /\ UNCHANGED oob
         ELSE IF s.index \notin Indices
         THEN /\ rt' = [rt EXCEPT ![pid].k = s.j, ![pid].x = s.x,
                                  ![pid].y = s.y, ![pid].index = s.index]
              /\ \E pass \in BOOLEAN :
                    oob' = oob \cup {<<"dev_depth", s.index>>}
                           \cup (IF pass THEN {<<"dev_fragmentBuffer", s.index>>}
                                 ELSE {})
              /\ UNCHANGED finished
         ELSE /\ rt' = [rt EXCEPT ![pid].k = s.j, ![pid].x = s.x,
                                  ![pid].y = s.y, ![pid].index = s.index,
                                  ![pid].depth = s.depth,
                                  ![pid].pc = IF FLess(s.depth, dev_depth[s.index])
                                              THEN "fminRead" ELSE "scan"]
              /\ UNCHANGED <<finished, oob>>
    /\ UNCHANGED <<Buffers, started, Fixed>>

\* fatomicMin:  float old = *addr;  if (old <= value) return old;
fatomicMinRead(pid) ==
    /\ pid \in DOMAIN rt
    /\ rt[pid].pc = "fminRead"
    /\ LET old == dev_depth[rt[pid].index]
       IN  rt' = [rt EXCEPT ![pid].old = old,
                            ![pid].calls = Append(@, <<rt[pid].index, rt[pid].depth>>),
                            ![pid].pc = IF FLeq(old, rt[pid].depth) THEN "wNor"
                                        ELSE "cas"]
    /\ UNCHANGED <<Buffers, started, finished, oob, Fixed>>

\* One turn of the loop of fatomicMin:
\*   assumed = old;  old = atomicCAS(addr, assumed, value);
\* and the test  while (old != assumed).
fatomicMinCas(pid) ==
    /\ pid \in DOMAIN rt
    /\ rt[pid].pc = "cas"
    /\ LET assumed == rt[pid].old
           cur     == dev_depth[rt[pid].index]
       IN  /\ dev_depth' = IF cur = assumed
                           THEN [dev_depth EXCEPT ![rt[pid].index] = rt[pid].depth]
                           ELSE dev_depth
           /\ rt' = [rt EXCEPT ![pid].old = cur,
                               ![pid].pc = IF cur # assumed THEN "cas" ELSE "wNor"]
    /\ UNCHANGED <<dev_verticesOut, dev_primitives, dev_culledPrimitives,
                   culledNumPrimitives, dev_fragmentBuffer, dev_depthAccum,
                   dev_depthRevealage, dev_framebuffer, pbo, started, finished,
                   oob, Fixed>>

\* fragmentBuffer[index].eyeNor = perspectiveCorrectNormal;
writeNormal(pid) ==
    /\ pid \in DOMAIN rt
    /\ rt[pid].pc = "wNor"
    /\ dev_fragmentBuffer' = [dev_fragmentBuffer EXCEPT ![rt[pid].index].eyeNor =
          <<rt[pid].prim.v[1].eyeNor, rt[pid].prim.v[2].eyeNor,
            rt[pid].prim.v[3].eyeNor>>]
    /\ rt' = [rt EXCEPT ![pid].pc = "wMat"]
    /\ UNCHANGED <<dev_verticesOut, dev_primitives, dev_culledPrimitives,
                   culledNumPrimitives, dev_depth, dev_depthAccum,
                   dev_depthRevealage, dev_framebuffer, pbo, started, finished,
                   oob, Fixed>>

\* fragmentBuffer[index].materialId = primitive.v[0].materialId;
writeMaterialId(pid) ==
    /\ pid \in DOMAIN rt
    /\ rt[pid].pc = "wMat"
    /\ dev_fragmentBuffer' = [dev_fragmentBuffer EXCEPT
          ![rt[pid].index].materialId = rt[pid].prim.v[1].materialId]
    /\ rt' = [rt EXCEPT ![pid].pc = "wColor"]
    /\ UNCHANGED <<dev_verticesOut, dev_primitives, dev_culledPrimitives,
                   culledNumPrimitives, dev_depth, dev_depthAccum,
                   dev_depthRevealage, dev_framebuffer, pbo, started, finished,
                   oob, Fixed>>

\* fragmentBuffer[index].color = color;  and on to the next candidate.
writeColor(pid) ==
    /\ pid \in DOMAIN rt
    /\ rt[pid].pc = "wColor"
    /\ dev_fragmentBuffer' = [dev_fragmentBuffer EXCEPT
          ![rt[pid].index].color = FragmentColor(rt[pid].prim)]
    /\ rt' = [rt EXCEPT ![pid].pc = "scan"]
    /\ UNCHANGED <<dev_verticesOut, dev_primitives, dev_culledPrimitives,
                   culledNumPrimitives, dev_depth, dev_depthAccum,
                   dev_depthRevealage, dev_framebuffer, pbo, started, finished,
                   oob, Fixed>>

\* ------------------------------------------- fragment shader and present

\* render, the thread of pixel t, in the default build (colours, no k-buffer).
\* A shaded colour is kept as the inputs of the lighting formula.
render(k, t) ==
    /\ Op(k).kind = "render"
    /\ CanStart(k, t)
    /\ LET index == FlatIndex(<<ThreadX(t), ThreadY(t)>>, scene.w)
           frag  == dev_fragmentBuffer[index]
           m     == frag.materialId
       IN  IF m = -1
           THEN /\ dev_framebuffer' = [dev_framebuffer EXCEPT ![index] =
                      [kind |-> "pass", color |-> frag.color, mat |-> -1,
                       nor |-> <<Zero3, Zero3, Zero3>>]]
                /\ UNCHANGED oob
           ELSE /\ dev_framebuffer' = [dev_framebuffer EXCEPT ![index] =
                      [kind |-> "shaded",
                       color |-> IF m \in 0 .. scene.totalNumMaterials - 1
                                 THEN frag.color ELSE WildColor,
                       mat |-> m, nor |-> frag.eyeNor]]
                /\ oob' = IF m \in 0 .. scene.totalNumMaterials - 1 THEN oob
                          ELSE oob \cup {<<"dev_materials", m>>}
    /\ RunTask(k, t)
    /\ UNCHANGED <<dev_verticesOut, dev_primitives, dev_culledPrimitives,
                   culledNumPrimitives, dev_fragmentBuffer, dev_depth,
                   dev_depthAccum, dev_depthRevealage, pbo, rt, Fixed>>

\* clamp(c, 0, 1) * 255 for a channel that is 0 or 1.
ToByte(c) == Clamp(c, 0, 1) * 255

\* sendImageToPBO: x, y, z from the colour, w from its z again.  The bytes of
\* a colour that is not one of the constant ones are not evaluated (-1).
sendImageToPBO(k, t) ==
    /\ Op(k).kind = "present"
    /\ CanStart(k, t)
    /\ LET index == FlatIndex(<<ThreadX(t), ThreadY(t)>>, scene.w)
           px    == dev_framebuffer[index]
           c     == px.color.v
       IN  pbo' = [pbo EXCEPT ![index] =
              [bytes |-> IF px.kind = "pass" /\ px.color.kind = "rgba"
                         THEN <<ToByte(c[1]), ToByte(c[2]), ToByte(c[3]), ToByte(c[3])>>
                         ELSE <<-1, -1, -1, -1>>,
               of |-> px]]
    /\ RunTask(k, t)
    /\ UNCHANGED <<dev_verticesOut, dev_primitives, dev_culledPrimitives,
                   culledNumPrimitives, dev_fragmentBuffer, dev_depth,
                   dev_depthAccum, dev_depthRevealage, dev_framebuffer, rt, oob,
                   Fixed>>

\* The host's frame loop calls rasterize again, scene and matrices unchanged.
nextFrame ==
    /\ FrameDone
    /\ frame < MaxFrames
    /\ frame' = frame + 1
    /\ prev' = [valid |-> TRUE, depth |-> dev_depth, frag |-> dev_fragmentBuffer,
                fb |-> dev_framebuffer, pbo |-> pbo]
    /\ started' = {}
    /\ finished' = {}
    /\ rt' = [n \in {} |-> 0]
    /\ oob' = {}
    /\ UNCHANGED <<Buffers, scene, config, probe, mem, host, oit>>

Next ==
    \/ \E k \in 1 .. NumOps : \E t \in Tasks(k) : vertexTransformAndAssembly(k, t)
    \/ \E k \in 1 .. NumOps : \E t \in Tasks(k) : primitiveAssembly(k, t)
    \/ \E k \in 1 .. NumOps : copyPrimitives(k)
    \/ \E k \in 1 .. NumOps : backfaceCull(k)
    \/ \E k \in 1 .. NumOps : clearFragmentBuffer(k)
    \/ \E k \in 1 .. NumOps : clearDepthAccum(k)
    \/ \E k \in 1 .. NumOps : clearDepthRevealage(k)
    \/ \E k \in 1 .. NumOps : \E t \in Tasks(k) : initDepth(k, t)
    \/ \E pid \in 0 .. culledNumPrimitives - 1 : rasterizeBegin(pid)
    \/ \E pid \in DOMAIN rt : rasterizeScan(pid)
    \/ \E pid \in DOMAIN rt : fatomicMinRead(pid)
    \/ \E pid \in DOMAIN rt : fatomicMinCas(pid)
    \/ \E pid \in DOMAIN rt : writeNormal(pid)
    \/ \E pid \in DOMAIN rt : writeMaterialId(pid)
    \/ \E pid \in DOMAIN rt : writeColor(pid)
    \/ \E k \in 1 .. NumOps : \E t \in Tasks(k) : render(k, t)
    \/ \E k \in 1 .. NumOps : \E t \in Tasks(k) : sendImageToPBO(k, t)
    \/ nextFrame

Spec == Init /\ [][Next]_vars

\* -------------------------------------- the point-in-triangle test alone

\* The two triangles a rectangle n x m splits into along its diagonal, in
\* either winding; they share the edge from (n,0) to (0,m).
Lower(n, m, flip) ==
    IF flip THEN << <<0, 0, Z05>>, <<0, m, Z05>>, <<n, 0, Z05>> >>
    ELSE << <<0, 0, Z05>>, <<n, 0, Z05>>, <<0, m, Z05>> >>

Upper(n, m, flip) ==
    IF flip THEN << <<n, m, Z05>>, <<n, 0, Z05>>, <<0, m, Z05>> >>
    ELSE << <<n, m, Z05>>, <<0, m, Z05>>, <<n, 0, Z05>> >>

\* The test of the rasterizer's loop body for pixel p:
\*   bcCoord = calculateBarycentricCoordinate(tri, vec2(x, y));
\*   isBcCoordInTri = isBarycentricCoordInBounds(bcCoord);
Accepts(tri, p) ==
    isBarycentricCoordInBounds(calculateBarycentricCoordinate(tri, p))

InitTri ==
    /\ InitScene(rasterizeSetBuffers(1, 1, << >>),
                 [BACKFACE_CULLING |-> FALSE, heapTex |-> "NULL", addrDelta |-> 0])
    /\ \E n \in 1 .. GridMax : \E m \in 1 .. GridMax : \E flip \in BOOLEAN :
         probe = [on |-> TRUE, tested |-> FALSE, lower |-> Lower(n, m, flip),
                  upper |-> Upper(n, m, flip), n |-> n, m |-> m,
                  p |-> <<0, 0>>, inLower |-> FALSE, inUpper |-> FALSE]
    /\ mem = NoMem
    /\ host = NoHost
    /\ oit = NoOit

\* Both triangles are tested at pixel p.
barycentricTest(p) ==
    /\ probe.on
    /\ ~probe.tested
    /\ probe' = [probe EXCEPT !.tested = TRUE, !.p = p,
                              !.inLower = Accepts(probe.lower, p),
                              !.inUpper = Accepts(probe.upper, p)]
    /\ UNCHANGED <<Buffers, scene, config, started, finished, rt, oob, frame, prev,
                   mem, host, oit>>

NextTri == \E x \in 0 .. GridMax : \E y \in 0 .. GridMax : barycentricTest(<<x, y>>)

SpecTri == InitTri /\ [][NextTri]_vars

\* ------------------------------------------- the device buffers' lifecycle

\* The host calls rasterizeInit, rasterizeSetBuffers and rasterizeFree this
\* many times in all, and a scene has at most this many mesh-parts.
MaxCalls == 4
MaxParts == 2

\* The five image-sized buffers of rasterizeInit and the three arrays of
\* rasterizeSetBuffers are file-scope pointers; 0 is NULL.
InitBuffers == {"dev_fragmentBuffer", "dev_framebuffer", "dev_depth",
                "dev_depthAccum", "dev_depthRevealage"}
SceneBuffers == {"dev_primitives", "dev_culledPrimitives", "dev_materials"}

\* The pointers a PrimitiveDevBufPointers record holds to buffers of its own.
PartBuffers(p) == {p.dev_indices, p.dev_position, p.dev_normal, p.dev_texcoord0,
                   p.dev_diffuseTex, p.dev_verticesOut}

\* cudaFree of each pointer of ptrs: NULL is ignored, a live allocation is
\* released, and a pointer to an allocation already released is recorded.
cudaFree(m, ptrs) ==
    [m EXCEPT !.live = @ \ ptrs,
              !.twice = @ \cup ((ptrs \ {0}) \ m.live)]

InitLife ==
    /\ InitScene(rasterizeSetBuffers(1, 1, << >>),
                 [BACKFACE_CULLING |-> FALSE, heapTex |-> "NULL", addrDelta |-> 0])
    /\ probe = NoProbe
    /\ mem = [on |-> TRUE, live |-> {}, twice |-> {}, next |-> 1,
              global |-> [b \in InitBuffers \cup SceneBuffers |-> 0],
              mesh2PrimitivesMap |-> << >>, calls |-> << >>]
    /\ host = NoHost
    /\ oit = NoOit

Idle == UNCHANGED <<Buffers, scene, config, started, finished, rt, oob, frame,
                    prev, probe, host, oit>>

\* The n-th allocation of a call that starts with mem.next free.
Fresh(n) == mem.next + n

\* rasterizeInit: each image-sized buffer is freed and allocated anew.
callRasterizeInit ==
    /\ mem.on
    /\ Len(mem.calls) < MaxCalls
    /\ \E freed \in {cudaFree(mem, {mem.global[b] : b \in InitBuffers})} :
         mem' = [freed EXCEPT
                   !.live = @ \cup {Fresh(n) : n \in 0 .. 4},
                   !.next = @ + 5,
                   !.global = [b \in DOMAIN @ |->
                       CASE b = "dev_fragmentBuffer" -> Fresh(0)
                         [] b = "dev_framebuffer" -> Fresh(1)
                         [] b = "dev_depth" -> Fresh(2)
                         [] b = "dev_depthAccum" -> Fresh(3)
                         [] b = "dev_depthRevealage" -> Fresh(4)
                         [] OTHER -> @[b]],
                   !.calls = Append(@, "rasterizeInit")]
    /\ Idle

\* The record rasterizeSetBuffers pushes for the i-th mesh-part of a scene:
\* indices, positions, normals and the VertexOut array are always allocated,
\* texture coordinates and texels when the part is textured.
PartPointers(i, textured) ==
    [dev_indices |-> Fresh(6 * i - 5), dev_position |-> Fresh(6 * i - 4),
     dev_normal |-> Fresh(6 * i - 3),
     dev_texcoord0 |-> IF textured THEN Fresh(6 * i - 2) ELSE 0,
     dev_verticesOut |-> Fresh(6 * i - 1),
     dev_diffuseTex |-> IF textured THEN Fresh(6 * i) ELSE 0]

\* rasterizeSetBuffers for a scene of one mesh with n mesh-parts: a buffer
\* view is allocated (Fresh(0)) and freed at the end; insert on the map leaves
\* the vector of a mesh already there in place and the new records are pushed
\* behind it; the three scene arrays are allocated into the file-scope
\* pointers.
callRasterizeSetBuffers(n, textured) ==
    /\ mem.on
    /\ Len(mem.calls) < MaxCalls
    /\ mem' = [mem EXCEPT
                 !.live = @ \cup UNION {PartBuffers(PartPointers(i, textured))
                                           \ {0} : i \in 1 .. n}
                            \cup {Fresh(6 * n + k) : k \in 1 .. 3},
                 !.next = @ + 6 * n + 4,
                 !.mesh2PrimitivesMap =
                     @ \o [i \in 1 .. n |-> PartPointers(i, textured)],
                 !.global = [b \in DOMAIN @ |->
                     CASE b = "dev_primitives" -> Fresh(6 * n + 1)
                       [] b = "dev_culledPrimitives" -> Fresh(6 * n + 2)
                       [] b = "dev_materials" -> Fresh(6 * n + 3)
                       [] OTHER -> @[b]],
                 !.calls = Append(@, "rasterizeSetBuffers")]
    /\ Idle

\* rasterizeFree: the buffers of every record of the map are freed, the map
\* and its records stay as they are; the eight file-scope pointers are freed
\* and set to NULL.
callRasterizeFree ==
    /\ mem.on
    /\ Len(mem.calls) < MaxCalls
    /\ \E freed \in {cudaFree(mem,
                        UNION {PartBuffers(mem.mesh2PrimitivesMap[i])
                                  : i \in DOMAIN mem.mesh2PrimitivesMap}
                        \cup {mem.global[b] : b \in DOMAIN mem.global})} :
         mem' = [freed EXCEPT
                   !.global = [b \in DOMAIN @ |-> 0],
                   !.calls = Append(@, "rasterizeFree")]
    /\ Idle

NextLife ==
    \/ callRasterizeInit
    \/ \E n \in 1 .. MaxParts : \E textured \in BOOLEAN :
          callRasterizeSetBuffers(n, textured)
    \/ callRasterizeFree

SpecLife == InitLife /\ [][NextLife]_vars

\* ------------------------------------- the launches and their error checks

\* The operations of rasterize that are kernel launches; the copy, the
\* filter and the clears are library calls.
IsKernel(kd) ==
    kd \in {"vertex", "assembly", "initDepth", "rasterize", "render", "present"}

\* The messages of the checkCUDAError calls between operation k and the next
\* operation, in program order.
ChecksAfter(k) ==
    IF k = 0 THEN << >>
    ELSE CASE Op(k).kind = "vertex" -> <<"Vertex Processing">>
           [] Op(k).kind = "assembly" ->
                IF k = 2 * Len(scene.parts)
                THEN <<"Primitive Assembly",
                       "Vertex Processing and Primitive Assembly">>
                ELSE <<"Primitive Assembly">>
           [] Op(k).kind = "rasterize" -> <<"rasterization">>
           [] Op(k).kind = "render" -> <<"fragment shader">>
           [] Op(k).kind = "present" -> <<"copy render result to pbo">>
           [] OTHER -> << >>

InitHost ==
    /\ \E sc \in Scenes : \E cf \in Configs(sc) : InitScene(sc, cf)
    /\ probe = NoProbe
    /\ mem = NoMem
    /\ oit = NoOit
    /\ host = [on |-> TRUE, k |-> 0, checked |-> 0, lastError |-> "none",
               unchecked |-> << >>, exited |-> FALSE, msg |-> "", failed |-> "none"]

HostOnly == UNCHANGED <<Buffers, scene, config, started, finished, rt, oob,
                        frame, prev, probe, mem, oit>>

\* rasterize issues its next operation. A kernel launch that fails leaves its
\* error as the runtime's last error; a launch that succeeds leaves the last
\* error as it was.
hostLaunch(fail) ==
    /\ host.on
    /\ ~host.exited
    /\ host.k < NumOps
    /\ host.checked = Len(ChecksAfter(host.k))
    /\ fail => IsKernel(Op(host.k + 1).kind)
    /\ host' = [host EXCEPT
                  !.k = @ + 1,
                  !.checked = 0,
                  !.lastError = IF fail THEN Op(host.k + 1).kind ELSE @,
                  !.unchecked = IF IsKernel(Op(host.k + 1).kind)
                                THEN Append(@, Op(host.k + 1).kind) ELSE @]
    /\ HostOnly

\* checkCUDAError(msg): the last error is fetched and reset; when there is
\* one it is printed with msg and the program exits.
hostCheck ==
    /\ host.on
    /\ ~host.exited
    /\ host.checked < Len(ChecksAfter(host.k))
    /\ host' = IF host.lastError = "none"
               THEN [host EXCEPT !.checked = @ + 1, !.unchecked = << >>]
               ELSE [host EXCEPT !.exited = TRUE,
                                 !.msg = ChecksAfter(host.k)[host.checked + 1],
                                 !.failed = host.lastError,
                                 !.lastError = "none",
                                 !.unchecked = << >>]
    /\ HostOnly

NextHost ==
    \/ \E fail \in BOOLEAN : hostLaunch(fail)
    \/ hostCheck

SpecHost == InitHost /\ [][NextHost]_vars

\* -------------------------- primitive assembly over any number of indices

\* The scene rasterizeSetBuffers builds when the index accessor of mesh-part
\* i holds the indices idx: numIndices is the accessor's count and, in
\* TRIANGLES mode, numPrimitives = numIndices / 3.
WithIndices(w, h, inputs, i, idx) ==
    LET sc    == rasterizeSetBuffers(w, h, inputs)
        parts == [sc.parts EXCEPT ![i].numIndices = Len(idx),
                                  ![i].dev_indices = idx,
                                  ![i].numPrimitives = Len(idx) \div 3]
    IN  [sc EXCEPT !.parts = parts,
                   !.totalNumPrimitives = SumPrims(parts, Len(parts))]

\* Scenes whose index count is not a multiple of 3: four indices in the first
\* of two mesh-parts, five in an only mesh-part.
RaggedScenes ==
    { WithIndices(1, 1,
          << In(<<Tri(PixAFlip, Z03, Eye, Toward)>>, FALSE),
             In(<<Tri(PixAFlip, Z07, Eye, Upward)>>, TRUE) >>,
          1, <<0, 1, 2, 0>>),
      WithIndices(1, 1,
          << In(<<Tri(PixAFlip, Z05, Eye, Toward)>>, FALSE) >>,
          1, <<0, 1, 2, 0, 1>>) }

InitAsm ==
    /\ \E sc \in Scenes \cup RaggedScenes : \E cf \in Configs(sc) : InitScene(sc, cf)
    /\ probe = NoProbe
    /\ mem = NoMem
    /\ host = NoHost
    /\ oit = NoOit

\* The per-mesh-part loop of rasterize.
NextAsm ==
    \/ \E k \in 1 .. NumOps : \E t \in Tasks(k) : vertexTransformAndAssembly(k, t)
    \/ \E k \in 1 .. NumOps : \E t \in Tasks(k) : primitiveAssembly(k, t)

SpecAsm == InitAsm /\ [][NextAsm]_vars

\* ------------------------------ the transparency buffers (USE_K_BUFFER)

\* At most this many primitives cover the pixel.
MaxLayers == 2

\* Colour components are in thousandths; alphas and the accumulated sums in
\* AlphaUnit-ths, so that the sums are exact.
AlphaUnit == 30000
LayerColors == {<<0, 0, 0>>, <<500, 500, 500>>, <<1000, 0, 0>>}

\* color.a = 0.1f; color.a *= 1 - clamp((r + g + b) / 3, 0, 1)
KAlpha(c) == 3000 - Clamp(c[1] + c[2] + c[3], 0, 3000)

\* a = min(1, color.a) * 8 + 0.01; b = depth * 0.95 + 1;
\* w = clamp(a*a*a * 1e8 * b*b*b, 1e-2, 3e2).  A covered pixel's depth is
\* positive, so b >= 1, and a = (8 * alpha + 300) / AlphaUnit: from
\* 8 * alpha + 300 >= 433 on a*a*a * 1e8 >= 300 and w is 300.
KWeight(alpha) == CASE 8 * Min2(AlphaUnit, alpha) + 300 >= 433 -> 300

\* What the four atomicAdd of a task add to the pixel's accumulator.
KContribution(c) ==
    <<c[1] * 30 * KWeight(KAlpha(c)), c[2] * 30 * KWeight(KAlpha(c)),
      c[3] * 30 * KWeight(KAlpha(c)), KAlpha(c) * KWeight(KAlpha(c))>>

\* The statements of a task at the pixel, in program order.
KSteps == <<"r", "g", "b", "w", "revealage">>

\* The pixel after the frame's clears; each covering primitive has a task.
InitOit ==
    /\ InitScene(rasterizeSetBuffers(1, 1, << >>),
                 [BACKFACE_CULLING |-> FALSE, heapTex |-> "NULL", addrDelta |-> 0])
    /\ probe = NoProbe
    /\ mem = NoMem
    /\ host = NoHost
    /\ \E n \in 1 .. MaxLayers : \E cs \in [1 .. n -> LayerColors] :
         oit = [on |-> TRUE, color |-> cs, pc |-> [i \in 1 .. n |-> 1],
                depthAccum |-> <<0, 0, 0, 0>>, depthRevealage |-> ByteOnesFloat]

OitOnly == UNCHANGED <<Buffers, scene, config, started, finished, rt, oob,
                       frame, prev, probe, mem, host>>

\* atomicAdd(&depthAccum[index].r / .g / .b / .w, ...) of task i.
atomicAddAccum(i) ==
    /\ oit.on
    /\ oit.pc[i] \in 1 .. 4
    /\ oit' = [oit EXCEPT
                 !.depthAccum[oit.pc[i]] = @ + KContribution(oit.color[i])[oit.pc[i]],
                 !.pc[i] = @ + 1]
    /\ OitOnly

\* depthRevealage[index] = color.a of task i.
storeRevealage(i) ==
    /\ oit.on
    /\ oit.pc[i] = 5
    /\ oit' = [oit EXCEPT
                 !.depthRevealage = FromRatio(KAlpha(oit.color[i]), AlphaUnit),
                 !.pc[i] = @ + 1]
    /\ OitOnly

NextOit ==
    \/ \E i \in DOMAIN oit.pc : atomicAddAccum(i)
    \/ \E i \in DOMAIN oit.pc : storeRevealage(i)

SpecOit == InitOit /\ [][NextOit]_vars

\* ------------------------------------------ the texture fetch on its own

\* Textures are up to MaxTex texels wide and high; texture coordinates are
\* multiples of 1 / UVSteps in [0, 1), which float holds exactly, as it does
\* their products with a texture size.
MaxTex == 3
UVSteps == 4

\* The bytes of a W x H texture, three per texel, row-major: the three bytes
\* of the texel at position n are 3n, 3n + 1, 3n + 2 (mod 256), so that
\* every texel differs from every other.
Texels(W, H) == [o \in 0 .. 3 * W * H - 1 |-> o % 256]

\* (int)(uv.s * texWidth) + (int)(uv.t * texWidth) * texHeight, for
\* uv = (a, b) / UVSteps.
TexIndex(a, b, W, H) == ((a * W) \div UVSteps) + ((b * W) \div UVSteps) * H

\* texels[3 * texIndex + c] / 255.0f, c = 0, 1, 2, and alpha 1.0f; a texIndex
\* outside the texture reads bytes that are not the texture's.
TexFetch(texels, texIndex) ==
    IF 3 * texIndex + 2 \in DOMAIN texels
    THEN <<FromRatio(texels[3 * texIndex], 255),
           FromRatio(texels[3 * texIndex + 1], 255),
           FromRatio(texels[3 * texIndex + 2], 255), FOne>>
    ELSE <<"outside", "outside", "outside", FOne>>

InitTex ==
    /\ InitScene(rasterizeSetBuffers(1, 1, << >>),
                 [BACKFACE_CULLING |-> FALSE, heapTex |-> "NULL", addrDelta |-> 0])
    /\ mem = NoMem
    /\ host = NoHost
    /\ oit = NoOit
    /\ \E W \in 1 .. MaxTex : \E H \in 1 .. MaxTex :
       \E a \in 0 .. UVSteps - 1 : \E b \in 0 .. UVSteps - 1 :
         probe = [on |-> TRUE, tested |-> FALSE, texWidth |-> W, texHeight |-> H,
                  a |-> a, b |-> b, texIndex |-> 0, color |-> << >>]

\* The nearest-neighbour branch of the rasterizer's texture fetch.
sampleNearest ==
    /\ probe.on
    /\ ~probe.tested
    /\ probe' = [probe EXCEPT
                   !.tested = TRUE,
                   !.texIndex = TexIndex(probe.a, probe.b, probe.texWidth,
                                         probe.texHeight),
                   !.color = TexFetch(Texels(probe.texWidth, probe.texHeight),
                                      TexIndex(probe.a, probe.b, probe.texWidth,
                                               probe.texHeight))]
    /\ UNCHANGED <<Buffers, scene, config, started, finished, rt, oob, frame, prev,
                   mem, host, oit>>

SpecTex == InitTex /\ [][sampleNearest]_vars

\* ------------------------------- the perspective-correct depth on its own

\* Barycentric coordinates are multiples of 1 / BarySteps, which float holds
\* exactly: <<i, j, BarySteps - i - j>> / BarySteps sums to 1 exactly.
BarySteps == 8

\* The vertex depths tried.
ProbeDepths == {Z03, Z05, Z07}

InitZ ==
    /\ InitScene(rasterizeSetBuffers(1, 1, << >>),
                 [BACKFACE_CULLING |-> FALSE, heapTex |-> "NULL", addrDelta |-> 0])
    /\ mem = NoMem
    /\ host = NoHost
    /\ oit = NoOit
    /\ \E i \in 1 .. BarySteps - 2 : \E j \in 1 .. BarySteps - 1 - i :
       \E z0 \in ProbeDepths : \E z1 \in ProbeDepths : \E z2 \in ProbeDepths :
         probe = [on |-> TRUE, tested |-> FALSE,
                  bc |-> <<FromRatio(i, BarySteps), FromRatio(j, BarySteps),
                           FromRatio(BarySteps - i - j, BarySteps)>>,
                  tri |-> << <<0, 0, z0>>, <<0, 0, z1>>, <<0, 0, z2>> >>,
                  depth |-> FZero]

\* float depth = getPerspectiveCorrectZAtCoordinate(bcCoord, tri)
perspectiveZ ==
    /\ probe.on
    /\ ~probe.tested
    /\ probe' = [probe EXCEPT
                   !.tested = TRUE,
                   !.depth = getPerspectiveCorrectZAtCoordinate(probe.bc, probe.tri)]
    /\ UNCHANGED <<Buffers, scene, config, started, finished, rt, oob, frame, prev,
                   mem, host, oit>>

SpecZ == InitZ /\ [][perspectiveZ]_vars

\* --------------------------------------------- the other primitive modes

\* The switch of rasterizeSetBuffers on primitive.mode: the primitive type
\* and the number of primitives counted for numIndices indices.
PrimitiveTypeOf(mode) ==
    CASE mode \in {"TRIANGLES", "TRIANGLE_STRIP", "TRIANGLE_FAN"} -> 3
      [] mode \in {"LINE", "LINE_LOOP"} -> 2
      [] mode = "POINTS" -> 1

NumPrimitivesOf(mode, numIndices) ==
    CASE mode = "TRIANGLES" -> numIndices \div 3
      [] mode \in {"TRIANGLE_STRIP", "TRIANGLE_FAN"} -> numIndices - 2
      [] mode = "LINE" -> numIndices \div 2
      [] mode = "LINE_LOOP" -> numIndices + 1
      [] mode = "POINTS" -> numIndices

\* The scene rasterizeSetBuffers builds from one mesh-part of three vertices
\* and three indices in the given mode.
WithMode(mode) ==
    LET sc    == rasterizeSetBuffers(1, 1,
                     << In(<<Tri(PixAFlip, Z05, Eye, Toward)>>, FALSE) >>)
        parts == [sc.parts EXCEPT
                    ![1].primitiveMode = mode,
                    ![1].primitiveType = PrimitiveTypeOf(mode),
                    ![1].numPrimitives = NumPrimitivesOf(mode, sc.parts[1].numIndices)]
    IN  [sc EXCEPT !.parts = parts,
                   !.totalNumPrimitives = SumPrims(parts, Len(parts))]

\* One scene per mode other than TRIANGLES, and the scene without mesh-parts.
ModeScenes ==
    {WithMode(mode) : mode \in {"TRIANGLE_STRIP", "TRIANGLE_FAN", "LINE",
                                "LINE_LOOP", "POINTS"}}
    \cup {rasterizeSetBuffers(1, 1, << >>)}

\* dim3 numThreadsPerBlock(128 < culledNumPrimitives ? 128 : culledNumPrimitives)
RasterBlockSize(n) == IF 128 < n THEN 128 ELSE n

InitModes ==
    /\ \E sc \in Scenes \cup ModeScenes : \E cf \in Configs(sc) : InitScene(sc, cf)
    /\ probe = NoProbe
    /\ mem = NoMem
    /\ host = NoHost
    /\ oit = NoOit

SpecModes == InitModes /\ [][Next]_vars

\* ------------------------------------------------------------ properties

RenderOp == OpOf("render")

\* The rasterizer launch of the current frame was reached and has returned.
RasterDone == StreamReady(RasterOp) /\ OpComplete(RasterOp)

\* Thread pid scan-converts its primitive (it returned neither for an
\* unwritten record nor for the in-kernel cull).
Drawn(pid) ==
    /\ PrimWritten(rt[pid].prim)
    /\ ~(config.BACKFACE_CULLING /\ KernelCulls(rt[pid].prim))

PixelOf(index) == <<ThreadX(index), ThreadY(index)>>

\* Thread pid's triangle covers the pixel of index.
Covers(pid, index) == Drawn(pid) /\ Accepts(PrimTri(rt[pid].prim), PixelOf(index))

DepthAt(pid, index) ==
    getPerspectiveCorrectZAtCoordinate(
        calculateBarycentricCoordinate(PrimTri(rt[pid].prim), PixelOf(index)),
        PrimTri(rt[pid].prim))

\* The fragment record a primitive produces.
FragmentOf(prim) ==
    [color |-> FragmentColor(prim),
     eyeNor |-> <<prim.v[1].eyeNor, prim.v[2].eyeNor, prim.v[3].eyeNor>>,
     materialId |-> prim.v[1].materialId]

\* C1: once the rasterizer has completed, for any two triangles covering the
\* same pixel the pixel's fragment record is the one of the triangle with
\* the strictly smaller depth there, whatever the interleaving was.
C1_NearerTriangleWins ==
    RasterDone =>
        \A index \in Indices : \A near \in DOMAIN rt : \A far \in DOMAIN rt :
            (/\ Covers(near, index) /\ Covers(far, index)
             /\ FLess(DepthAt(near, index), DepthAt(far, index)))
            => dev_fragmentBuffer[index] = FragmentOf(rt[near].prim)

\* The calls of fatomicMin made so far, as <<index, value>>.
AllCalls ==
    UNION {{rt[pid].calls[n] : n \in 1 .. Len(rt[pid].calls)} : pid \in DOMAIN rt}

CallsAt(index) == {c[2] : c \in {d \in AllCalls : d[1] = index}}

MinF(S) == CHOOSE m \in S : \A v \in S : FLeq(m, v)

PlainStore(pid) == rt[pid].pc \in {"wNor", "wMat", "wColor"}

\* C3: no reachable state has two rasterizer tasks of different primitives
\* each performing a plain, non-atomic store to the same pixel's slot.
C3_NoConcurrentPlainStores ==
    \A p \in DOMAIN rt : \A q \in DOMAIN rt :
        (p # q /\ PlainStore(p) /\ PlainStore(q)) => rt[p].index # rt[q].index

NoRasterTaskYet == \A pid \in 0 .. culledNumPrimitives - 1 : <<RasterOp, pid>> \notin started

Begun(k) == \E t \in Tasks(k) : <<k, t>> \in started

\* The stage an operation belongs to: 1 vertex, 2 primitive assembly,
\* 3 visibility filter, 4 per-frame clear, 5 rasterizer, 6 fragment shader,
\* 7 present.
StageOf(kind) ==
    CASE kind = "vertex" -> 1
      [] kind = "assembly" -> 2
      [] kind \in {"copy", "cull"} -> 3
      [] kind \in {"clearFragment", "clearAccum", "clearRevealage", "initDepth"} -> 4
      [] kind = "rasterize" -> 5
      [] kind = "render" -> 6
      [] kind = "present" -> 7

\* C5 as stated: every task of a stage has completed before any task of the
\* next stage starts, the stages being vertex stage, primitive assembly,
\* visibility filter, clear, rasterizer, fragment shader, present.
C5_StagesInOrder ==
    \A j \in 1 .. NumOps : \A k \in 1 .. NumOps :
        (StageOf(Op(j).kind) < StageOf(Op(k).kind) /\ Begun(k)) => OpComplete(j)

\* The vertex a finished primitive-assembly thread read had been written.
AssembledFromWritten(k, iid) ==
    LET part == scene.parts[Op(k).part]
        slot == (iid \div part.primitiveType) + CurPrimitiveBeginId(Op(k).part)
    IN  dev_primitives[slot].v[(iid % part.primitiveType) + 1].written

\* C5 amended: every task of an operation has completed before any task of
\* an operation rasterize issues later starts (per mesh-part its vertex
\* kernel, then its primitive assembly; then filter, clears, rasterizer,
\* fragment shader, present); no primitive-assembly task reads a vertex the
\* vertex stage has not written, and no fragment-shader task starts while a
\* rasterizer task has not returned.
C5_IssueOrder ==
    /\ \A j \in 1 .. NumOps : \A k \in 1 .. NumOps :
          (j < k /\ Begun(k)) => OpComplete(j)
    /\ \A k \in 1 .. NumOps :
          Op(k).kind = "assembly" =>
              \A iid \in Tasks(k) :
                  <<k, iid>> \in finished => AssembledFromWritten(k, iid)
    /\ Begun(RenderOp) =>
          \A pid \in 0 .. culledNumPrimitives - 1 : <<RasterOp, pid>> \in finished

\* C5 witness: a frame of a scene with two mesh-parts ran to its end.
C5_TwoPartFrameDone == Len(scene.parts) = 2 /\ FrameDone /\ Begun(RenderOp)

\* C6: two executions of rasterize on the same scene and matrices leave
\* identical depth, fragment, colour and presented buffers.
C6_FramesIdentical ==
    (prev.valid /\ FrameDone) =>
        /\ dev_depth = prev.depth
        /\ dev_fragmentBuffer = prev.frag
        /\ dev_framebuffer = prev.fb
        /\ pbo = prev.pbo

\* C7: every pixel (x, y) the rasterizer handles lies inside the image, so
\* its flat index is in [0, width*height) and addresses pixel (x, y) itself.
C7_HandledPixelsInImage ==
    \A pid \in DOMAIN rt :
        rt[pid].k > 0 =>
            /\ 0 <= rt[pid].x /\ rt[pid].x < scene.w
            /\ 0 <= rt[pid].y /\ rt[pid].y < scene.h
            /\ rt[pid].index \in Indices
            /\ PixelOf(rt[pid].index) = <<rt[pid].x, rt[pid].y>>

\* The barycentric coordinates of p times twice the area of tri, each with
\* the sign it has as a real number: <<alpha, beta, gamma>>.
ExactBarycentric(tri, p) ==
    LET A == Cross(tri[1], tri[2], tri[3])
        b == Cross(tri[1], p, tri[3])
        g == Cross(tri[1], tri[2], p)
    IN  <<Sgn(A) * (A - b - g), Sgn(A) * b, Sgn(A) * g>>

InsideOrOnEdge(tri, p) == \A n \in 1 .. 3 : ExactBarycentric(tri, p)[n] >= 0

OnEdge(tri, p) ==
    InsideOrOnEdge(tri, p) /\ \E n \in 1 .. 3 : ExactBarycentric(tri, p)[n] = 0

\* C8: a pixel exactly on an edge of a non-degenerate triangle is accepted,
\* for either winding; and of two triangles sharing an edge at least one
\* accepts each pixel inside their union or on the shared edge.
C8_EdgeInclusiveNoGap ==
    (probe.on /\ probe.tested) =>
        /\ OnEdge(probe.lower, probe.p) => probe.inLower
        /\ OnEdge(probe.upper, probe.p) => probe.inUpper
        /\ (InsideOrOnEdge(probe.lower, probe.p) \/ InsideOrOnEdge(probe.upper, probe.p))
              => (probe.inLower \/ probe.inUpper)

\* C9: a pixel that no triangle's point-in-triangle test accepts keeps its
\* cleared fragment and its depth +infinity through the rasterizer stage.
C9_UncoveredPixelsStayCleared ==
    RasterDone =>
        \A index \in Indices :
            (\A pid \in DOMAIN rt : ~Covers(pid, index)) =>
                /\ dev_fragmentBuffer[index] = ClearedFragment
                /\ dev_depth[index] = FInf

KeptCount(n) == IF n = 0 THEN 1 ELSE n

\* C10: after the visibility filter the culled array starts with exactly
\* the primitives the predicate keeps, in their original order, and
\* culledNumPrimitives is their number (1 when none is kept).
C10_FilterKeepsSurvivors ==
    (config.BACKFACE_CULLING /\ <<OpOf("cull"), 0>> \in finished) =>
        /\ culledNumPrimitives =
              KeptCount(Len(Survivors(dev_primitives, scene.totalNumPrimitives)))
        /\ \A n \in 1 .. Len(Survivors(dev_primitives, scene.totalNumPrimitives)) :
              dev_culledPrimitives[n - 1] =
                  Survivors(dev_primitives, scene.totalNumPrimitives)[n]

\* C11: with the visibility filter enabled, every primitive record a
\* rasterizer task processes is a primitive assembled in the current frame,
\* and none that the filter predicate classifies as back-facing is
\* scan-converted.
C11_OnlyFrontFacingRasterized ==
    config.BACKFACE_CULLING =>
        \A pid \in DOMAIN rt :
            /\ pid \in Slots
            /\ PrimWritten(rt[pid].prim)
            /\ Drawn(pid) => ~shouldBackfaceCull(rt[pid].prim)

\* The index of the material record built from mesh-part i's own material:
\* records are appended in the order of the mesh-parts that have one.
OwnMaterialIndex(i) == Cardinality({j \in 1 .. i - 1 : scene.supplied[j]})

IntendedMaterialId(i) == IF scene.supplied[i] THEN OwnMaterialIndex(i) ELSE -1

\* C12: a mesh-part supplied without a material has material id -1, whatever
\* was loaded before it, one supplied with a material has the index of its
\* own material record, and the vertex stage carries that id unchanged to
\* the mesh-part's transformed vertices.
C12_MaterialIdOfMeshPart ==
    \A i \in 1 .. Len(scene.parts) :
        /\ scene.parts[i].materialId = IntendedMaterialId(i)
        /\ \A v \in 1 .. scene.parts[i].numVertices :
              dev_verticesOut[i][v].written =>
                  dev_verticesOut[i][v].materialId = IntendedMaterialId(i)

\* The allocations a pointer the host still holds leads to.
Reachable ==
    ({mem.global[b] : b \in DOMAIN mem.global}
       \cup UNION {PartBuffers(mem.mesh2PrimitivesMap[i])
                      : i \in DOMAIN mem.mesh2PrimitivesMap}) \ {0}

LastCall == mem.calls[Len(mem.calls)]

\* C13: over every sequence of rasterizeInit, rasterizeSetBuffers and
\* rasterizeFree calls, no device buffer is passed to cudaFree after it was
\* freed, no allocated buffer is left without a pointer to it, and nothing is
\* still allocated once rasterizeFree has returned.
C13_BuffersFreedExactlyOnce ==
    mem.on =>
        /\ mem.twice = {}
        /\ mem.live \subseteq Reachable
        /\ (Len(mem.calls) > 0 /\ LastCall = "rasterizeFree") => mem.live = {}

\* The single defects, each on its own.
C13_NoDoubleFree == mem.on => mem.twice = {}
C13_NoLeak == mem.on => mem.live \subseteq Reachable

\* The stage a checkCUDAError message names.
StageNamed(msg) ==
    CASE msg = "Vertex Processing" -> "vertex"
      [] msg = "Primitive Assembly" -> "assembly"
      [] msg = "rasterization" -> "rasterize"
      [] msg = "fragment shader" -> "render"
      [] msg = "copy render result to pbo" -> "present"
      [] OTHER -> "none"

\* C14: in rasterize no kernel is launched while the launch of an earlier
\* kernel is still unchecked, and a failed launch is reported by a check whose
\* message names the stage that failed.
C14_FailedLaunchNamesItsStage ==
    host.on =>
        /\ Len(host.unchecked) <= 1
        /\ host.exited => StageNamed(host.msg) = host.failed

\* The attribution alone.
C14_ReportNamesFailedStage ==
    (host.on /\ host.exited) => StageNamed(host.msg) = host.failed

\* The primitive slots of mesh-part i: numPrimitives slots from its base.
SlotRange(i) ==
    CurPrimitiveBeginId(i) .. CurPrimitiveBeginId(i) + scene.parts[i].numPrimitives - 1

\* The primitive slot the index task iid of mesh-part i addresses.
SlotOfIndex(i, iid) == (iid \div 3) + CurPrimitiveBeginId(i)

AssemblyDone ==
    {kt \in finished : kt[1] <= NumOps /\ Op(kt[1]).kind = "assembly"}

\* C15: the slot ranges of the mesh-parts are pairwise disjoint and inside
\* [0, totalNumPrimitives), and every index task that has run addressed a
\* primitive slot of its own mesh-part's range, none past the end of the
\* primitive array.
C15_AssemblyStaysInOwnRange ==
    /\ \A i, j \in 1 .. Len(scene.parts) :
          i # j => SlotRange(i) \cap SlotRange(j) = {}
    /\ \A i \in 1 .. Len(scene.parts) : SlotRange(i) \subseteq Slots
    /\ \A kt \in AssemblyDone : SlotOfIndex(Op(kt[1]).part, kt[2]) \in SlotRange(Op(kt[1]).part)
    /\ \A a \in oob : a[1] # "dev_primitives"

\* The two ways out of the range, each on its own.
C15_NoWritePastArray == \A a \in oob : a[1] # "dev_primitives"
C15_NoWriteIntoNextPart ==
    \A kt \in AssemblyDone :
        SlotOfIndex(Op(kt[1]).part, kt[2]) \in Slots =>
            SlotOfIndex(Op(kt[1]).part, kt[2]) \in SlotRange(Op(kt[1]).part)

\* C16: when the rasterizer stage is ready and none of its tasks has started,
\* every pixel's fragment is cleared, its depth is +infinity, its accumulated
\* colour is (0,0,0,0) and its revealage is 1.0.
C16_BuffersResetBeforeRasterizer ==
    (StreamReady(RasterOp) /\ NoRasterTaskYet) =>
        \A index \in Indices :
            /\ dev_fragmentBuffer[index] = ClearedFragment
            /\ dev_depth[index] = FInf
            /\ dev_depthAccum[index] = Black0
            /\ dev_depthRevealage[index] = FOne

\* The same without the revealage: what the clears do establish.
C16_ResetButRevealage ==
    (StreamReady(RasterOp) /\ NoRasterTaskYet) =>
        \A index \in Indices :
            /\ dev_fragmentBuffer[index] = ClearedFragment
            /\ dev_depth[index] = FInf
            /\ dev_depthAccum[index] = Black0

OitDone == oit.on /\ \A i \in DOMAIN oit.pc : oit.pc[i] = Len(KSteps) + 1

RECURSIVE SumContributions(_, _)
SumContributions(n, ch) ==
    IF n = 0 THEN 0 ELSE KContribution(oit.color[n])[ch] + SumContributions(n - 1, ch)

\* What the tasks leave when they run one after the other in array order.
InOrderRevealage == FromRatio(KAlpha(oit.color[Len(oit.color)]), AlphaUnit)

\* C17: whatever the order and interleaving of the tasks contributing to a
\* pixel, when all have ended its accumulator holds the sum of their
\* contributions and its revealage holds the value an execution of the tasks
\* in array order leaves.
C17_TransparencyOrderIndependent ==
    OitDone =>
        /\ oit.depthAccum = [ch \in 1 .. 4 |-> SumContributions(Len(oit.color), ch)]
        /\ oit.depthRevealage = InOrderRevealage

\* The accumulator alone.
C17_AccumOrderIndependent ==
    OitDone =>
        oit.depthAccum = [ch \in 1 .. 4 |-> SumContributions(Len(oit.color), ch)]

\* The texel column and row of the probe's coordinate: trunc(u * W), trunc(v * H).
TexelX == (probe.a * probe.texWidth) \div UVSteps
TexelY == (probe.b * probe.texHeight) \div UVSteps

\* C18: the nearest-neighbour fetch at (u, v) from a W x H texture reads the
\* texel at row-major position x + y * W, x = trunc(u * W), y = trunc(v * H),
\* and returns its three bytes divided by 255 with alpha 1.
C18_NearestTexelRowMajor ==
    (probe.on /\ probe.tested) =>
        /\ probe.texIndex = TexelX + TexelY * probe.texWidth
        /\ probe.color =
             <<FromRatio((3 * (TexelX + TexelY * probe.texWidth)) % 256, 255),
               FromRatio((3 * (TexelX + TexelY * probe.texWidth) + 1) % 256, 255),
               FromRatio((3 * (TexelX + TexelY * probe.texWidth) + 2) % 256, 255),
               FOne>>

\* The same for square textures only.
C18_SquareTextures ==
    (probe.on /\ probe.tested /\ probe.texWidth = probe.texHeight) =>
        /\ probe.texIndex = TexelX + TexelY * probe.texWidth
        /\ probe.color[4] = FOne
        /\ probe.color[1] = FromRatio((3 * probe.texIndex) % 256, 255)

\* The fetch stays inside the texture.
C18_FetchInsideTexture ==
    (probe.on /\ probe.tested) => probe.color[1] # "outside"

FMin(a, b) == IF FLess(b, a) THEN b ELSE a
FMax(a, b) == IF FLess(a, b) THEN b ELSE a

\* C19: for a barycentric coordinate strictly inside the triangle and summing
\* to 1, the depth getPerspectiveCorrectZAtCoordinate returns lies between the
\* smallest and the largest of the three vertex depths.
C19_DepthBetweenVertexDepths ==
    (probe.on /\ probe.tested) =>
        /\ FLeq(FMin(FMin(probe.tri[1][3], probe.tri[2][3]), probe.tri[3][3]),
                probe.depth)
        /\ FLeq(probe.depth,
                FMax(FMax(probe.tri[1][3], probe.tri[2][3]), probe.tri[3][3]))

\* The fragment shader's thread of the pixel of index has returned.
Rendered(index) == <<RenderOp, index>> \in finished

\* C20: the fragment shader reads the material table only at an index inside
\* it, and a pixel whose fragment is still cleared when it is shaded causes
\* no material read: its cleared colour is passed through.
C20_MaterialReadsInTable ==
    /\ \A a \in oob : a[1] # "dev_materials"
    /\ \A index \in Indices :
          Rendered(index) =>
              /\ dev_framebuffer[index].kind = "shaded" =>
                    dev_framebuffer[index].mat \in 0 .. scene.totalNumMaterials - 1
              /\ dev_fragmentBuffer[index] = ClearedFragment =>
                    dev_framebuffer[index] =
                        [kind |-> "pass", color |-> ClearedFragment.color,
                         mat |-> -1, nor |-> <<Zero3, Zero3, Zero3>>]

\* The two parts, each on its own.
C20_NoReadOutsideTable == \A a \in oob : a[1] # "dev_materials"
C20_ClearedPixelPassedThrough ==
    \A index \in Indices :
        (Rendered(index) /\ dev_fragmentBuffer[index] = ClearedFragment) =>
            dev_framebuffer[index].kind = "pass"

\* C21: every vertex the vertex stage wrote for a mesh-part without a diffuse
\* texture has a null texture reference, and the texture reference of a
\* primitive the rasterizer scan-converts is never the unwritten content of
\* the output-vertex buffer.
C21_UntexturedVertexHasNullTexture ==
    /\ \A i \in 1 .. Len(scene.parts) :
          \A v \in 1 .. scene.parts[i].numVertices :
              (dev_verticesOut[i][v].written /\ scene.parts[i].dev_diffuseTex = "NULL")
                  => dev_verticesOut[i][v].dev_diffuseTex = "NULL"
    /\ \A pid \in DOMAIN rt :
          Drawn(pid) => rt[pid].prim.v[1].dev_diffuseTex # "GARBAGE"

\* The same when the allocation happens to hold zero bytes.
C21_NullWhenHeapIsZero ==
    config.heapTex = "NULL" =>
        \A i \in 1 .. Len(scene.parts) :
            \A v \in 1 .. scene.parts[i].numVertices :
                dev_verticesOut[i][v].written
                    => dev_verticesOut[i][v].dev_diffuseTex = "NULL"

\* The primitive-assembly launch of mesh-part i has completed.
Assembled(i) == OpComplete(2 * i)

\* C22: every primitive record a rasterizer thread read is a slot of the
\* array with all three vertices written; once a mesh-part is assembled every
\* slot counted for it is filled; and the rasterizer's block size is not zero.
C22_RasterizerReadsAssembledPrimitives ==
    /\ \A pid \in DOMAIN rt : pid \in Slots /\ PrimWritten(rt[pid].prim)
    /\ \A i \in 1 .. Len(scene.parts) :
          Assembled(i) => \A slot \in SlotRange(i) : PrimWritten(dev_primitives[slot])
    /\ StreamReady(RasterOp) => RasterBlockSize(culledNumPrimitives) >= 1

\* The parts of C22, each on its own and without the visibility filter.
C22_CountedSlotsFilled ==
    \A i \in 1 .. Len(scene.parts) :
        Assembled(i) => \A slot \in SlotRange(i) : PrimWritten(dev_primitives[slot])
C22_ReadsWrittenUnfiltered ==
    ~config.BACKFACE_CULLING =>
        \A pid \in DOMAIN rt : pid \in Slots /\ PrimWritten(rt[pid].prim)
C22_BlockSizeNotZero ==
    StreamReady(RasterOp) => RasterBlockSize(culledNumPrimitives) >= 1
C22_TrianglesUnfiltered ==
    (/\ ~config.BACKFACE_CULLING
     /\ \A i \in 1 .. Len(scene.parts) : scene.parts[i].primitiveMode = "TRIANGLES"
     /\ scene.totalNumPrimitives > 0) =>
        /\ \A pid \in DOMAIN rt : pid \in Slots /\ PrimWritten(rt[pid].prim)
        /\ \A i \in 1 .. Len(scene.parts) :
              Assembled(i) => \A slot \in SlotRange(i) : PrimWritten(dev_primitives[slot])
        /\ StreamReady(RasterOp) => RasterBlockSize(culledNumPrimitives) >= 1

==========================================================================
